---- MODULE Spec2Model ----
(***************************************************************************)
(* A model of the pump.fun proxy: the Flask handlers of server.py          *)
(* (/create_tx, /broadcast_tx) and the helpers of blockchain.py            *)
(* (create_tx, sign_tx, broadcast_tx).                                     *)
(*                                                                         *)
(* Scale.  Python strings are sequences of one-character strings.  A byte  *)
(* is a value of 0..3 (two bits), a public key and a signature are one     *)
(* byte each and a keypair is two bytes (secret, public key).  base58 is   *)
(* the real algorithm over the three-symbol alphabet "123" ("1" is the     *)
(* zero digit, as in base58), base64 the real grouping at one byte = two   *)
(* symbols of "AB".  The wire format of a transaction keeps the layout of  *)
(* the real one: signature count, signatures, message header, account key  *)
(* count, account keys, payload.                                           *)
(***************************************************************************)
EXTENDS Integers, Sequences, FiniteSets, TLC

VARIABLES pc, reqno, ep, req, resp, events, loc, ret, rx, keylog, console,
          s_pc, s_tx, s_mint, s_user, s_out

vars == <<pc, reqno, ep, req, resp, events, loc, ret, rx, keylog, console,
          s_pc, s_tx, s_mint, s_user, s_out>>

serverVars == <<pc, reqno, ep, req, resp, events, loc, ret, rx, keylog, console>>
signVars == <<s_pc, s_tx, s_mint, s_user, s_out>>

\* Requests served in one run of the model.
MaxRequests == 2

(***************************************************************************)
(* Python strings and the str methods the handlers use.                    *)
(***************************************************************************)
WS == {" "}

RECURSIVE LStrip(_)
LStrip(s) == IF s # <<>> /\ Head(s) \in WS THEN LStrip(Tail(s)) ELSE s

RECURSIVE RStrip(_)
RStrip(s) ==
    IF s # <<>> /\ s[Len(s)] \in WS THEN RStrip(SubSeq(s, 1, Len(s) - 1)) ELSE s

\* str.strip()
strip(s) == RStrip(LStrip(s))

\* p in s, for two str (or two lists of words): p is a contiguous part of s.
IsInfix(p, s) ==
    \E i \in 0..(Len(s) - Len(p)) : SubSeq(s, i + 1, i + Len(p)) = p

Repeat(x, n) == [i \in 1..n |-> x]

RECURSIVE LeadingCount(_, _)
LeadingCount(s, z) ==
    IF s # <<>> /\ Head(s) = z THEN 1 + LeadingCount(Tail(s), z) ELSE 0

(***************************************************************************)
(* Bytes, base58 and base64.                                               *)
(***************************************************************************)
Bytes == 0..3
ByteRadix == Cardinality(Bytes)

B58_ALPHABET == <<"1", "2", "3">>
B58Radix == Len(B58_ALPHABET)

B64_ALPHABET == <<"A", "B">>

RECURSIVE DigitsToInt(_, _)
DigitsToInt(d, radix) ==
    IF d = <<>> THEN 0
    ELSE DigitsToInt(SubSeq(d, 1, Len(d) - 1), radix) * radix + d[Len(d)]

RECURSIVE IntToDigits(_, _)
IntToDigits(n, radix) ==
    IF n = 0 THEN <<>> ELSE Append(IntToDigits(n \div radix, radix), n % radix)

IndexIn(alphabet, c) == CHOOSE i \in 1..Len(alphabet) : alphabet[i] = c
InAlphabet(alphabet, c) == \E i \in 1..Len(alphabet) : alphabet[i] = c

\* base58.b58encode: one "1" per leading zero byte, then the number in base 58.
b58encode(b) ==
    LET d == IntToDigits(DigitsToInt(b, ByteRadix), B58Radix)
    IN  Repeat("1", LeadingCount(b, 0)) \o [i \in 1..Len(d) |-> B58_ALPHABET[d[i] + 1]]

b58valid(s) == \A i \in 1..Len(s) : InAlphabet(B58_ALPHABET, s[i])

\* base58 decoding of a string of the alphabet (b58valid).
b58decode(s) ==
    LET d == [i \in 1..Len(s) |-> IndexIn(B58_ALPHABET, s[i]) - 1]
    IN  Repeat(0, LeadingCount(s, "1")) \o IntToDigits(DigitsToInt(d, B58Radix), ByteRadix)

\* base64.b64encode: each byte becomes its group of symbols.
b64encode(b) ==
    [i \in 1..(2 * Len(b)) |->
        B64_ALPHABET[(IF i % 2 = 1 THEN b[(i + 1) \div 2] \div 2 ELSE b[i \div 2] % 2) + 1]]

\* base64.b64decode(s) without validate=True drops every character that is not of
\* the alphabet before it decodes, and raises binascii.Error on a partial group.
B64Filtered(s) == SelectSeq(s, LAMBDA c : InAlphabet(B64_ALPHABET, c))

b64decode_ok(s) == Len(B64Filtered(s)) % 2 = 0

b64decode(s) ==
    LET f == B64Filtered(s)
    IN  [i \in 1..(Len(f) \div 2) |->
            2 * (IndexIn(B64_ALPHABET, f[2 * i - 1]) - 1) + (IndexIn(B64_ALPHABET, f[2 * i]) - 1)]

(***************************************************************************)
(* solders: Keypair, Pubkey, VersionedTransaction.                         *)
(***************************************************************************)
Keypairs == [secret : Bytes]

\* Keypair.pubkey(): the public key derived from the secret.
PubOf(secret) == (3 * secret + 1) % ByteRadix
pubkey(kp) == <<PubOf(kp.secret)>>

\* bytes(keypair): the secret followed by the public key.
KeypairBytes(kp) == <<kp.secret>> \o pubkey(kp)

\* str(pubkey)
PubkeyStr(pk) == b58encode(pk)

\* Pubkey.from_string(s) raises unless s is base58 of exactly one public key.
PubkeyFromStringOk(s) == b58valid(s) /\ Len(b58decode(s)) = Len(pubkey([secret |-> 0]))

\* One signature byte over the message by the keypair.
Sign(kp, message) ==
    <<(kp.secret + message.num_required_signatures + Len(message.account_keys)
        + DigitsToInt(message.account_keys, ByteRadix) + message.body) % ByteRadix>>

\* bytes(tx)
TxBytes(tx) ==
    <<Len(tx.signatures)>> \o tx.signatures
        \o <<tx.message.num_required_signatures, Len(tx.message.account_keys)>>
        \o tx.message.account_keys \o <<tx.message.body>>

\* VersionedTransaction.from_bytes(b) raises unless b holds a whole transaction.
FromBytesOk(b) ==
    /\ Len(b) >= 1
    /\ Len(b) >= b[1] + 3
    /\ Len(b) = b[1] + 3 + b[b[1] + 3] + 1

FromBytes(b) ==
    LET n  == b[1]
        nk == b[n + 3]
    IN  [signatures |-> SubSeq(b, 2, n + 1),
         message |-> [num_required_signatures |-> b[n + 2],
                      account_keys |-> SubSeq(b, n + 4, n + 3 + nk),
                      body |-> b[n + 4 + nk]]]

(***************************************************************************)
(* Python float(): optional sign, then digits, "nan" or "inf"; anything    *)
(* else raises ValueError.  A float is its kind, its sign and magnitude.   *)
(***************************************************************************)
DIGITS == <<"0", "1", "2", "3", "4", "5", "6", "7", "8", "9">>

Float(kind, neg, mag) == [ok |-> TRUE, kind |-> kind, neg |-> neg, mag |-> mag]
ValueError == [ok |-> FALSE, kind |-> "ValueError", neg |-> FALSE, mag |-> 0]
Zero == Float("fin", FALSE, 0)

ParseFloat(s) ==
    LET t      == strip(s)
        signed == t # <<>> /\ Head(t) \in {"-", "+"}
        neg    == signed /\ Head(t) = "-"
        body   == IF signed THEN Tail(t) ELSE t
    IN  IF body = <<"n", "a", "n">> THEN Float("nan", neg, 0)
        ELSE IF body = <<"i", "n", "f">> THEN Float("inf", neg, 0)
        ELSE IF body # <<>> /\ \A i \in 1..Len(body) : InAlphabet(DIGITS, body[i])
             THEN Float("fin", neg,
                        DigitsToInt([i \in 1..Len(body) |-> IndexIn(DIGITS, body[i]) - 1],
                                    Len(DIGITS)))
        ELSE ValueError

\* amount_float < 0: false for nan and for -0.0.
LtZero(f) == \/ f.kind = "fin" /\ f.neg /\ f.mag > 0
             \/ f.kind = "inf" /\ f.neg

(***************************************************************************)
(* HTTP responses of the handlers.  jsonify(...) gives a JSON body; an     *)
(* exception that leaves a handler gives Flask's own error page.           *)
(***************************************************************************)
NoResp == [status |-> 0, ctype |-> "none", body |-> [none |-> TRUE]]
Json(status, body) == [status |-> status, ctype |-> "json", body |-> body]
JsonError(status, msg) == Json(status, [error |-> msg])
\* werkzeug's page for an exception no handler caught (500) or an HTTPException.
FlaskErrorPage(status, exc) == [status |-> status, ctype |-> "html", body |-> [exception |-> exc]]

NoLoc == [none |-> TRUE]
NoRet == [kind |-> "pending"]
NoRx == [none |-> TRUE]

Event(e) == [e |-> e, to |-> "", payload |-> [none |-> TRUE]]
Call(to, payload) == [e |-> "call", to |-> to, payload |-> payload]
CallsTo(evs, to) == SelectSeq(evs, LAMBDA x : x.e = "call" /\ x.to = to)
Calls(evs) == SelectSeq(evs, LAMBDA x : x.e = "call")
Happened(evs, e) == \E i \in 1..Len(evs) : evs[i].e = e

(***************************************************************************)
(* POST /create_tx: the requests.                                          *)
(***************************************************************************)
Opt(S) == {<<>>} \cup {<<v>> : v \in S}

\* A dict of the fields that are present.
Dict(o) == [k \in {x \in DOMAIN o : o[x] # <<>>} |-> o[k][1]]

NameInputs == {<<" ">>, <<" ", "T">>}
SymbolInputs == {<<>>, <<"S", " ">>}
DescriptionInputs == {<<" ", "d">>}
AmountInputs == {<<" ">>, <<"0">>, <<"7", " ">>, <<"-", "1">>, <<"-", "0">>, <<"x">>,
                 <<"n", "a", "n">>, <<"i", "n", "f">>, <<"-", "i", "n", "f">>}
UserKeyInputs == {<<" ">>, <<"0">>, <<"1", "1">>, <<" ", "2">>, <<"2", "1">>}
ImageInputs == {<<>>, <<1>>}

CreateRequests ==
    {[form |-> Dict([name |-> n, symbol |-> s, description |-> d, amount |-> a,
                     user_public_key |-> u]),
      files |-> Dict([image |-> i])] :
        n \in Opt(NameInputs), s \in Opt(SymbolInputs), d \in Opt(DescriptionInputs),
        a \in Opt(AmountInputs), u \in Opt(UserKeyInputs), i \in Opt(ImageInputs)}

\* dict.get(key, default)
Get(d, k, default) == IF k \in DOMAIN d THEN d[k] ELSE default

(***************************************************************************)
(* create_transaction, up to the call of create_tx.                        *)
(***************************************************************************)
\* MissingField without the check of request.files.
MissingFieldSkipsImage(form, files) ==
    IF "name" \notin DOMAIN form THEN "Missing required field: name"
    ELSE IF "symbol" \notin DOMAIN form THEN "Missing required field: symbol"
    ELSE IF "user_public_key" \notin DOMAIN form
         THEN "Missing required field: user_public_key"
    ELSE ""

\* The error for the first required field that is missing; "" when none is.
MissingField(form, files) ==
    IF "name" \notin DOMAIN form THEN "Missing required field: name"
    ELSE IF "symbol" \notin DOMAIN form THEN "Missing required field: symbol"
    ELSE IF "image" \notin DOMAIN files THEN "Missing required field: image"
    ELSE IF "user_public_key" \notin DOMAIN form
         THEN "Missing required field: user_public_key"
    ELSE ""

EmptyField(name, symbol, user_public_key_str) ==
    IF name = <<>> THEN "Name cannot be empty"
    ELSE IF symbol = <<>> THEN "Symbol cannot be empty"
    ELSE IF user_public_key_str = <<>> THEN "User public key cannot be empty"
    ELSE ""

\* Amount without the check amount_float < 0.
AmountAcceptsNegative(amount) ==
    IF amount = <<>> THEN [error |-> "", amount_float |-> Zero]
    ELSE LET f == ParseFloat(amount)
         IN  IF ~f.ok THEN [error |-> "Amount must be a valid number", amount_float |-> Zero]
             ELSE [error |-> "", amount_float |-> f]

\* The stripped amount: the error it is rejected with ("" when it is not) and
\* amount_float.
Amount(amount) ==
    IF amount = <<>> THEN [error |-> "", amount_float |-> Zero]
    ELSE LET f == ParseFloat(amount)
         IN  IF ~f.ok THEN [error |-> "Amount must be a valid number", amount_float |-> Zero]
             ELSE IF LtZero(f)
                  THEN [error |-> "Amount cannot be negative", amount_float |-> f]
             ELSE [error |-> "", amount_float |-> f]

\* The handler's arguments for create_tx, or the 400 it answers with.
Validate(form, files) ==
    LET missing == MissingField(form, files)
        name == strip(Get(form, "name", <<>>))
        symbol == strip(Get(form, "symbol", <<>>))
        description == IF "description" \in DOMAIN form THEN strip(form["description"]) ELSE <<>>
        amount == strip(Get(form, "amount", <<"0">>))
        user_public_key_str == strip(Get(form, "user_public_key", <<>>))
        empty == EmptyField(name, symbol, user_public_key_str)
        amt == Amount(amount)
        args == [name |-> name, symbol |-> symbol, description |-> description,
                 amount |-> amt.amount_float,
                 user_public_key |-> IF PubkeyFromStringOk(user_public_key_str)
                                     THEN b58decode(user_public_key_str) ELSE <<>>,
                 image_data |-> Get(files, "image", <<>>)]
        Bad(msg) == [status |-> 400, error |-> msg, args |-> args]
    IN  IF missing # "" THEN Bad(missing)
        ELSE IF empty # "" THEN Bad(empty)
        ELSE IF amt.error # "" THEN Bad(amt.error)
        ELSE IF ~PubkeyFromStringOk(user_public_key_str)
             THEN Bad("Invalid user public key: ParseError")
        ELSE IF args.image_data = <<>> THEN Bad("Image file is empty")
        ELSE [status |-> 0, error |-> "", args |-> args]

\* The multipart body of the upload to https://pump.fun/api/ipfs.
IpfsPayload(a) ==
    [data |-> [name |-> a.name, symbol |-> a.symbol, description |-> a.description],
     files |-> [filename |-> a.symbol \o <<".png">>, content |-> a.image_data]]

\* A request arrives at /create_tx; a valid one enters create_tx, which makes the
\* mint keypair and posts the metadata.
ReceiveCreateTx ==
    /\ pc = "idle"
    /\ reqno < MaxRequests
    /\ \E r \in CreateRequests :
         LET v == Validate(r.form, r.files)
         IN  /\ req' = r
             /\ IF v.status # 0
                THEN /\ resp' = JsonError(v.status, v.error)
                     /\ pc' = "done"
                     /\ UNCHANGED <<events, loc, keylog>>
                ELSE \E kp \in Keypairs :
                     /\ resp' = NoResp
                     /\ pc' = "await_ipfs"
                     /\ loc' = [args |-> v.args, mint_keypair |-> kp]
                     /\ events' = <<Event("keygen"), Call("ipfs", IpfsPayload(v.args))>>
                     /\ keylog' = Append(keylog, [req |-> reqno + 1, keypair |-> kp])
    /\ reqno' = reqno + 1
    /\ ep' = "create_tx"
    /\ UNCHANGED <<rx, console, ret>>
    /\ UNCHANGED signVars

(***************************************************************************)
(* create_tx after the metadata upload.                                    *)
(***************************************************************************)
HttpResponse(raised, status, isjson, json, content) ==
    [raised |-> raised, status |-> status, isjson |-> isjson, json |-> json,
     content |-> content]

NoJson == [t |-> "none", has |-> {}]
ConnectionError == HttpResponse(TRUE, 0, FALSE, NoJson, <<>>)

MetadataUri == <<"ipfs://", "meta">>

\* What https://pump.fun/api/ipfs may answer.
IpfsResponses ==
    {ConnectionError,
     HttpResponse(FALSE, 500, TRUE,
                  [t |-> "object", has |-> {"metadataUri"}, metadataUri |-> MetadataUri], <<>>),
     HttpResponse(FALSE, 201, TRUE,
                  [t |-> "object", has |-> {"metadataUri"}, metadataUri |-> MetadataUri], <<>>),
     HttpResponse(FALSE, 200, FALSE, NoJson, <<>>),
     HttpResponse(FALSE, 200, TRUE, [t |-> "array", has |-> {}], <<>>),
     HttpResponse(FALSE, 200, TRUE, [t |-> "object", has |-> {"error"}], <<>>),
     HttpResponse(FALSE, 200, TRUE,
                  [t |-> "object", has |-> {"metadataUri"}, metadataUri |-> MetadataUri], <<>>)}

Raised(exc) == [kind |-> "raised", exc |-> exc]
ReturnNone == [kind |-> "None", exc |-> ""]
Continue == [kind |-> "continue", exc |-> ""]

\* AfterIpfs without the check of the status code.
AfterIpfsIgnoresStatus(r) ==
    IF r.raised THEN Raised("ConnectionError")
    ELSE IF ~r.isjson THEN ReturnNone
    ELSE IF r.json.t # "object" THEN Raised("TypeError")
    ELSE IF "metadataUri" \notin r.json.has THEN Raised("KeyError")
    ELSE Continue

\* create_tx on the answer to the upload: it raises, returns None or goes on.
AfterIpfs(r) ==
    IF r.raised THEN Raised("ConnectionError")
    ELSE IF r.status # 200 THEN ReturnNone
    ELSE IF ~r.isjson THEN ReturnNone
    ELSE IF r.json.t # "object" THEN Raised("TypeError")
    ELSE IF "metadataUri" \notin r.json.has THEN Raised("KeyError")
    ELSE Continue

\* The JSON body of the request to https://pumpportal.fun/api/trade-local.
TradePayload(a, mint_keypair, uri) ==
    [publicKey |-> PubkeyStr(a.user_public_key),
     action |-> "create",
     tokenMetadata |-> [name |-> a.name, symbol |-> a.symbol, uri |-> uri],
     mint |-> PubkeyStr(pubkey(mint_keypair)),
     amount |-> a.amount]

\* The transaction the builder makes for a payload: two signature slots, the
\* user's key and the mint's key first among the account keys.
BuilderTx(payload) ==
    [signatures |-> <<0, 0>>,
     message |-> [num_required_signatures |-> 2,
                  account_keys |-> b58decode(payload.publicKey) \o b58decode(payload.mint),
                  body |-> 1]]

\* What https://pumpportal.fun/api/trade-local may answer.
TradeResponses(payload) ==
    {ConnectionError,
     HttpResponse(FALSE, 400, FALSE, NoJson, <<>>),
     HttpResponse(FALSE, 500, FALSE, NoJson, TxBytes(BuilderTx(payload))),
     HttpResponse(FALSE, 200, FALSE, NoJson, <<>>),
     HttpResponse(FALSE, 200, FALSE, NoJson, <<3>>),
     HttpResponse(FALSE, 200, FALSE, NoJson, TxBytes(BuilderTx(payload)))}

\* create_tx on the answer to the build request: [kind, exc, deserialized].
AfterTrade(r) ==
    IF r.raised THEN [kind |-> "raised", exc |-> "ConnectionError", deserialized |-> FALSE]
    ELSE IF r.status # 200 THEN [kind |-> "None", exc |-> "", deserialized |-> FALSE]
    ELSE IF ~FromBytesOk(r.content)
         THEN [kind |-> "raised", exc |-> "ValueError", deserialized |-> TRUE]
    ELSE [kind |-> "tuple", exc |-> "", deserialized |-> TRUE]

\* SuccessBody with a keypair of the server's own in place of the mint's public key.
SuccessBodyOtherKey(unsigned_tx, mint_keypair) ==
    [unsigned_tx |-> b64encode(TxBytes(unsigned_tx)),
     mint_keypair |-> b58encode(KeypairBytes(mint_keypair)),
     mint_public_key |-> PubkeyStr(pubkey([secret |-> 0]))]

\* The body of the 200 of /create_tx.
SuccessBody(unsigned_tx, mint_keypair) ==
    [unsigned_tx |-> b64encode(TxBytes(unsigned_tx)),
     mint_keypair |-> b58encode(KeypairBytes(mint_keypair)),
     mint_public_key |-> PubkeyStr(pubkey(mint_keypair))]

\* f'Server error: {str(e)}'
ServerError(exc) ==
    [ConnectionError |-> "Server error: ConnectionError",
     TypeError |-> "Server error: TypeError",
     KeyError |-> "Server error: KeyError",
     ValueError |-> "Server error: ValueError"][exc]

\* create_transaction on what create_tx returned or raised.
CreateReply(r) ==
    IF r.kind = "raised" THEN JsonError(500, ServerError(r.exc))
    ELSE IF r.kind = "None" THEN JsonError(500, "Failed to create transaction")
    ELSE Json(200, SuccessBody(r.tx, r.mint_keypair))

\* The upload is answered: create_tx stops, or posts the build request.
IpfsResponds ==
    /\ pc = "await_ipfs"
    /\ \E r \in IpfsResponses :
         LET a == AfterIpfs(r)
         IN  /\ rx' = [ipfs |-> r]
             /\ IF a.kind = "continue"
                THEN /\ events' = Append(events,
                            Call("trade", TradePayload(loc.args, loc.mint_keypair,
                                                       r.json.metadataUri)))
                     /\ pc' = "await_trade"
                     /\ UNCHANGED <<ret, resp>>
                ELSE /\ events' = Append(events, Event("return"))
                     /\ ret' = a
                     /\ resp' = CreateReply(a)
                     /\ pc' = "done"
    /\ UNCHANGED <<reqno, ep, req, loc, keylog, console>>
    /\ UNCHANGED signVars

\* The build request is answered: create_tx returns and the handler replies.
TradeResponds ==
    /\ pc = "await_trade"
    /\ \E r \in TradeResponses(events[Len(events)].payload) :
         LET a == AfterTrade(r)
             out == IF a.kind = "tuple"
                    THEN [kind |-> "tuple", exc |-> "", tx |-> FromBytes(r.content),
                          mint_keypair |-> loc.mint_keypair]
                    ELSE [kind |-> a.kind, exc |-> a.exc]
         IN  /\ rx' = [ipfs |-> rx.ipfs, trade |-> r]
             /\ events' = events
                    \o (IF a.deserialized THEN <<Event("deserialize")>> ELSE <<>>)
                    \o <<Event("return")>>
             /\ ret' = out
             /\ resp' = CreateReply(out)
             /\ pc' = "done"
    /\ UNCHANGED <<reqno, ep, req, loc, keylog, console>>
    /\ UNCHANGED signVars

(***************************************************************************)
(* POST /broadcast_tx: the requests.  A JSON value is its type t, a str    *)
(* its characters s, and truthy is Python's bool(value).                   *)
(***************************************************************************)
JStr(s) == [t |-> "string", s |-> s, truthy |-> s # <<>>]
JNum(nonzero) == [t |-> "number", s |-> <<>>, truthy |-> nonzero]
JNull == [t |-> "null", s |-> <<>>, truthy |-> FALSE]
JBool(b) == [t |-> "bool", s |-> <<>>, truthy |-> b]
JArray(nonempty) == [t |-> "array", s |-> <<>>, truthy |-> nonempty]

\* A signed transaction as a client sends it.
SignedSample ==
    [signatures |-> <<1, 2>>,
     message |-> [num_required_signatures |-> 2, account_keys |-> <<1, 0>>, body |-> 1]]

SignedTxInputs ==
    {JStr(<<>>), JStr(<<"!">>), JStr(<<"A">>), JStr(<<"A", "A">>),
     JStr(b64encode(TxBytes(SignedSample))),
     JStr(<<"!">> \o b64encode(TxBytes(SignedSample))),
     JStr(Tail(b64encode(TxBytes(SignedSample)))),
     JNum(TRUE), JNum(FALSE), JNull, JBool(TRUE), JArray(TRUE), JArray(FALSE)}

\* The parsed body: an object with its keys (v is the value of signed_tx), an
\* array or a str with its items (elements, words), or a scalar.
JData(t, keys, items, v) == [t |-> t, keys |-> keys, items |-> items, v |-> v]

BroadcastData ==
    {JData("object", {"signed_tx"}, <<>>, v) : v \in SignedTxInputs}
    \cup {JData("object", {}, <<>>, JNull), JData("object", {"tx"}, <<>>, JNull),
          JData("array", {}, <<>>, JNull), JData("array", {}, <<"signed_tx">>, JNull),
          JData("string", {}, <<"tx">>, JNull), JData("string", {}, <<"signed_tx">>, JNull),
          JData("number", {}, <<>>, JNull), JData("null", {}, <<>>, JNull),
          JData("bool", {}, <<>>, JNull)}

\* is_json: the Content-Type is JSON; parse_ok: the body parses as JSON.
BroadcastRequests ==
    {[is_json |-> TRUE, parse_ok |-> TRUE, data |-> d] : d \in BroadcastData}
    \cup {[is_json |-> FALSE, parse_ok |-> TRUE,
           data |-> JData("object", {"signed_tx"}, <<>>, JStr(b64encode(TxBytes(SignedSample))))],
          [is_json |-> TRUE, parse_ok |-> FALSE, data |-> JData("null", {}, <<>>, JNull)]}

\* key in data: "True", "False" or "TypeError".
PyIn(key, data) ==
    IF data.t = "object" THEN (IF key \in data.keys THEN "True" ELSE "False")
    ELSE IF data.t = "array"
         THEN (IF \E i \in 1..Len(data.items) : data.items[i] = key THEN "True" ELSE "False")
    ELSE IF data.t = "string"
         THEN (IF IsInfix(<<key>>, data.items) THEN "True" ELSE "False")
    ELSE "TypeError"

(***************************************************************************)
(* broadcast_transaction, up to the call of broadcast_tx.                  *)
(***************************************************************************)
Decoded(status, r, tx) == [status |-> status, resp |-> r, tx |-> tx]

\* The signed transaction, or the response the handler ends with before any call.
BroadcastValidate(b) ==
    IF ~b.is_json THEN Decoded(400, JsonError(400, "Request must be JSON"), NoLoc)
    ELSE IF ~b.parse_ok THEN Decoded(400, FlaskErrorPage(400, "BadRequest"), NoLoc)
    ELSE IF PyIn("signed_tx", b.data) = "TypeError"
         THEN Decoded(500, FlaskErrorPage(500, "TypeError"), NoLoc)
    ELSE IF PyIn("signed_tx", b.data) = "False"
         THEN Decoded(400, JsonError(400, "Missing required field: signed_tx"), NoLoc)
    ELSE IF b.data.t # "object" THEN Decoded(500, FlaskErrorPage(500, "TypeError"), NoLoc)
    ELSE IF ~b.data.v.truthy
         THEN Decoded(400, JsonError(400, "signed_tx cannot be empty"), NoLoc)
    ELSE IF b.data.v.t # "string"
         THEN Decoded(400, JsonError(400, "Invalid transaction data: TypeError"), NoLoc)
    ELSE IF ~b64decode_ok(b.data.v.s)
         THEN Decoded(400, JsonError(400, "Invalid transaction data: Incorrect padding"), NoLoc)
    ELSE IF ~FromBytesOk(b64decode(b.data.v.s))
         THEN Decoded(400, JsonError(400, "Invalid transaction data: ValueError"), NoLoc)
    ELSE Decoded(0, NoResp, FromBytes(b64decode(b.data.v.s)))

\* SendVersionedTransaction(tx, config).to_json()
RpcPayload(tx) ==
    [method |-> "sendTransaction", tx |-> TxBytes(tx), preflightCommitment |-> "confirmed"]

\* A request arrives at /broadcast_tx; a valid one enters broadcast_tx, which posts
\* the transaction to the RPC endpoint.
ReceiveBroadcastTx ==
    /\ pc = "idle"
    /\ reqno < MaxRequests
    /\ \E b \in BroadcastRequests :
         LET d == BroadcastValidate(b)
         IN  /\ req' = b
             /\ resp' = d.resp
             /\ IF d.status # 0
                THEN /\ pc' = "done"
                     /\ UNCHANGED <<events, loc>>
                ELSE /\ pc' = "await_rpc"
                     /\ loc' = [signed_tx |-> d.tx]
                     /\ events' = <<Call("rpc", RpcPayload(d.tx))>>
    /\ reqno' = reqno + 1
    /\ ep' = "broadcast_tx"
    /\ UNCHANGED <<rx, console, ret, keylog>>
    /\ UNCHANGED signVars

(***************************************************************************)
(* broadcast_tx on the answer of the RPC endpoint.                         *)
(***************************************************************************)
NoCredit == <<"Attempt", "to", "debit", "an", "account", "but", "found",
              "no", "record", "of", "a", "prior", "credit">>
SimulationFailed == <<"Transaction", "simulation", "failed">>

\* The error member of a JSON-RPC answer: [t, has, message, data], data being
\* [t, has, err].
RpcErr(t, has, message, data) == [t |-> t, has |-> has, message |-> message, data |-> data]
ErrData(t, has, err) == [t |-> t, has |-> has, err |-> err]
NoErrData == ErrData("none", {}, <<>>)

RpcJson(has, result, error) ==
    [t |-> "object", has |-> has, result |-> result, error |-> error]
NoErr == RpcErr("none", {}, <<>>, NoErrData)

Signature == <<"5", "h", "Q">>

\* The answers whose error says that the sender has no account on chain.
AccountNotFoundErrors ==
    {RpcErr("object", {"message", "data"}, SimulationFailed,
            ErrData("object", {"err"}, <<"AccountNotFound">>)),
     RpcErr("object", {"message"}, NoCredit, NoErrData),
     RpcErr("object", {"message", "data"}, NoCredit, ErrData("object", {}, <<>>))}

\* An error of any other kind.
GenericError ==
    RpcErr("object", {"message", "data"}, SimulationFailed,
           ErrData("object", {"err"}, <<"BlockhashNotFound">>))

RpcErrors ==
    AccountNotFoundErrors
    \cup {GenericError,
          RpcErr("object", {}, <<>>, NoErrData),
          RpcErr("string", {}, <<>>, NoErrData),
          RpcErr("object", {"message", "data"}, SimulationFailed, ErrData("string", {}, <<>>))}

Ok200(json) == HttpResponse(FALSE, 200, TRUE, json, <<>>)

\* What https://api.mainnet-beta.solana.com/ may answer.
RpcResponses ==
    {ConnectionError,
     HttpResponse(FALSE, 500, FALSE, NoJson, <<>>),
     HttpResponse(FALSE, 429, TRUE, RpcJson({"result"}, JStr(Signature), NoErr), <<>>),
     HttpResponse(FALSE, 200, FALSE, NoJson, <<>>),
     Ok200([t |-> "array", has |-> {}]),
     Ok200(RpcJson({}, JNull, NoErr)),
     Ok200(RpcJson({"result"}, JStr(Signature), NoErr)),
     Ok200(RpcJson({"result"}, JStr(<<>>), NoErr)),
     Ok200(RpcJson({"result"}, JNum(TRUE), NoErr)),
     Ok200(RpcJson({"result"}, JNull, NoErr)),
     Ok200(RpcJson({"result", "error"}, JStr(Signature), GenericError))}
    \cup {Ok200(RpcJson({"error"}, JNull, e)) : e \in RpcErrors}

\* 'AccountNotFound' in str(error_data.get('err', ''))
\*     or 'no record of a prior credit' in error_msg
IsAccountNotFound(error) ==
    LET error_msg == IF "message" \in error.has THEN error.message ELSE <<"Unknown", "error">>
        err == IF "data" \in error.has /\ "err" \in error.data.has THEN error.data.err ELSE <<>>
    IN  \/ IsInfix(<<"AccountNotFound">>, err)
        \/ IsInfix(<<"no", "record", "of", "a", "prior", "credit">>, error_msg)

Returned(kind, exc, value, notice) ==
    [kind |-> kind, exc |-> exc, value |-> value, notice |-> notice]

\* BroadcastTx that reads the result before it looks for an error.
BroadcastTxIgnoresError(r) ==
    IF r.raised THEN Returned("raised", "ConnectionError", JNull, FALSE)
    ELSE IF r.status # 200 THEN Returned("None", "", JNull, FALSE)
    ELSE IF ~r.isjson THEN Returned("raised", "JSONDecodeError", JNull, FALSE)
    ELSE IF r.json.t # "object" THEN Returned("None", "", JNull, FALSE)
    ELSE IF "result" \notin r.json.has THEN Returned("None", "", JNull, FALSE)
    ELSE Returned("value", "", r.json.result, FALSE)

\* broadcast_tx on the answer: what it returns or raises, and whether it printed
\* the notice that the account must be funded.  A JSON null result is returned as
\* it is, and is Python's None.
BroadcastTx(r) ==
    IF r.raised THEN Returned("raised", "ConnectionError", JNull, FALSE)
    ELSE IF r.status # 200 THEN Returned("None", "", JNull, FALSE)
    ELSE IF ~r.isjson THEN Returned("raised", "JSONDecodeError", JNull, FALSE)
    ELSE IF r.json.t # "object" THEN Returned("None", "", JNull, FALSE)
    ELSE IF "error" \in r.json.has
         THEN IF r.json.error.t # "object" THEN Returned("raised", "AttributeError", JNull, FALSE)
              ELSE IF "data" \in r.json.error.has /\ r.json.error.data.t # "object"
                   THEN Returned("raised", "AttributeError", JNull, FALSE)
              ELSE Returned("None", "", JNull, IsAccountNotFound(r.json.error))
    ELSE IF "result" \notin r.json.has THEN Returned("None", "", JNull, FALSE)
    ELSE Returned("value", "", r.json.result, FALSE)

\* f'https://solscan.io/tx/{tx_signature}'
TransactionUrl(sig) == <<"https://solscan.io/tx/", sig>>

\* broadcast_transaction on what broadcast_tx returned or raised: an exception
\* leaves the handler, and "tx_signature is None" holds of a returned null too.
BroadcastReply(r) ==
    IF r.kind = "raised" THEN FlaskErrorPage(500, r.exc)
    ELSE IF r.kind = "None" \/ r.value.t = "null"
         THEN JsonError(500, "Failed to broadcast transaction")
    ELSE Json(200, [status |-> "success", signature |-> r.value,
                    transaction_url |-> TransactionUrl(r.value)])

\* The RPC endpoint answers: broadcast_tx returns and the handler replies.
RpcResponds ==
    /\ pc = "await_rpc"
    /\ \E r \in RpcResponses :
         LET out == BroadcastTx(r)
         IN  /\ rx' = [rpc |-> r]
             /\ ret' = out
             /\ console' = out.notice
             /\ resp' = BroadcastReply(out)
             /\ events' = Append(events, Event("return"))
             /\ pc' = "done"
    /\ UNCHANGED <<reqno, ep, req, loc, keylog>>
    /\ UNCHANGED signVars

\* The response is sent; nothing of the request is kept.
Reply ==
    /\ pc = "done"
    /\ pc' = "idle"
    /\ ep' = ""
    /\ req' = NoLoc
    /\ resp' = NoResp
    /\ events' = <<>>
    /\ loc' = NoLoc
    /\ ret' = NoRet
    /\ rx' = NoRx
    /\ console' = FALSE
    /\ UNCHANGED <<reqno, keylog>>
    /\ UNCHANGED signVars

(***************************************************************************)
(* sign_tx.                                                                *)
(***************************************************************************)
SignerError(what) == [ok |-> FALSE, error |-> what]

\* The first keypair of the list with this public key; 0 when there is none.
Position(keypairs, key) ==
    IF \E j \in 1..Len(keypairs) : pubkey(keypairs[j]) = <<key>>
    THEN CHOOSE j \in 1..Len(keypairs) :
            /\ pubkey(keypairs[j]) = <<key>>
            /\ \A k \in 1..(j - 1) : pubkey(keypairs[k]) # <<key>>
    ELSE 0

\* VersionedTransaction(message, keypairs): the constructor signs the message with
\* the keypairs.  It raises SignerError unless the keypairs are as many as the
\* message's required signatures and hold the key of each of the first
\* num_required_signatures account keys; signature i is by the keypair of
\* account key i.
NewVersionedTransaction(message, keypairs) ==
    LET n == message.num_required_signatures
        keys == message.account_keys
    IN  IF Len(keys) < n THEN SignerError("InvalidInput")
        ELSE IF Len(keypairs) > n THEN SignerError("TooManySigners")
        ELSE IF Len(keypairs) < n THEN SignerError("NotEnoughSigners")
        ELSE IF \E i \in 1..n : Position(keypairs, keys[i]) = 0
             THEN SignerError("KeypairPubkeyMismatch")
        ELSE [ok |-> TRUE,
              tx |-> [signatures |->
                          [i \in 1..n |-> Sign(keypairs[Position(keypairs, keys[i])], message)[1]],
                      message |-> message]]

\* sign_tx that hands the transaction back with the signatures it came with.
sign_txKeepsSignatures(tx, mint_keypair, user_keypair) ==
    IF NewVersionedTransaction(tx.message, <<user_keypair, mint_keypair>>).ok
    THEN [ok |-> TRUE, tx |-> tx]
    ELSE NewVersionedTransaction(tx.message, <<user_keypair, mint_keypair>>)

\* sign_tx: a new transaction of the same message, signed by the user's keypair
\* and the mint's, handed over in that order.
sign_tx(tx, mint_keypair, user_keypair) ==
    NewVersionedTransaction(tx.message, <<user_keypair, mint_keypair>>)

\* Account keys of a message in the model of sign_tx.
MaxAccountKeys == 3

SeqsUpTo(S, n) == UNION {[1..k -> S] : k \in 0..n}

\* The unsigned transactions sign_tx is applied to: every header and account key
\* list, with one empty signature slot per required signature.
UnsignedTxs ==
    {[signatures |-> Repeat(0, m.num_required_signatures), message |-> m] :
        m \in [num_required_signatures : 0..MaxAccountKeys,
               account_keys : SeqsUpTo(Bytes, MaxAccountKeys),
               body : {0, 1}]}

\* sign_tx(tx, mint_keypair, user_keypair) is called.
SignTx ==
    /\ s_pc = "ready"
    /\ s_out' = sign_tx(s_tx, s_mint, s_user)
    /\ s_pc' = "signed"
    /\ UNCHANGED <<s_tx, s_mint, s_user>>
    /\ UNCHANGED serverVars

Init ==
    /\ pc = "idle"
    /\ reqno = 0
    /\ ep = ""
    /\ req = NoLoc
    /\ resp = NoResp
    /\ events = <<>>
    /\ loc = NoLoc
    /\ ret = NoRet
    /\ rx = NoRx
    /\ keylog = <<>>
    /\ console = FALSE
    /\ s_pc = "off"
    /\ s_tx = NoLoc
    /\ s_mint = NoLoc
    /\ s_user = NoLoc
    /\ s_out = NoLoc

Next ==
    \/ ReceiveCreateTx
    \/ IpfsResponds
    \/ TradeResponds
    \/ ReceiveBroadcastTx
    \/ RpcResponds
    \/ Reply

Spec == Init /\ [][Next]_vars

\* The specification of sign_tx: any unsigned transaction and any two keypairs.
InitSign ==
    /\ pc = "off"
    /\ reqno = 0
    /\ ep = ""
    /\ req = NoLoc
    /\ resp = NoResp
    /\ events = <<>>
    /\ loc = NoLoc
    /\ ret = NoRet
    /\ rx = NoRx
    /\ keylog = <<>>
    /\ console = FALSE
    /\ s_pc = "ready"
    /\ s_tx \in UnsignedTxs
    /\ s_mint \in Keypairs
    /\ s_user \in Keypairs
    /\ s_out = NoLoc

NextSign == SignTx

SpecSign == InitSign /\ [][NextSign]_vars

(***************************************************************************)
(* The claims.                                                             *)
(***************************************************************************)
InCreate == ep = "create_tx"
InBroadcast == ep = "broadcast_tx"

REQUIRED == <<"name", "symbol", "image", "user_public_key">>

Present(r, field) ==
    IF field = "image" THEN field \in DOMAIN r.files ELSE field \in DOMAIN r.form

MissingIndexes(r) == {i \in 1..Len(REQUIRED) : ~Present(r, REQUIRED[i])}

FirstMissing(r) ==
    REQUIRED[CHOOSE i \in MissingIndexes(r) : \A j \in MissingIndexes(r) : i <= j]

MissingMessage ==
    [name |-> "Missing required field: name",
     symbol |-> "Missing required field: symbol",
     image |-> "Missing required field: image",
     user_public_key |-> "Missing required field: user_public_key"]

\* C1: a /create_tx request that lacks a required field is answered 400 with the
\* error naming the first missing field in the order name, symbol, image,
\* user_public_key, whatever the other fields hold, and nothing is called.
C1_MissingFieldIs400 ==
    (InCreate /\ MissingIndexes(req) # {}) =>
        /\ pc = "done"
        /\ resp = JsonError(400, MissingMessage[FirstMissing(req)])
        /\ events = <<>>

\* C1 witness: name and symbol are sent, image and user_public_key are not, and the
\* answer names image.
C1_Witness ==
    /\ InCreate
    /\ MissingIndexes(req) = {3, 4}
    /\ "amount" \in DOMAIN req.form
    /\ resp.status = 400
    /\ resp.body.error = "Missing required field: image"

\* The fields other than amount pass the handler's checks.
OtherwiseValid(r) ==
    /\ MissingIndexes(r) = {}
    /\ strip(r.form["name"]) # <<>>
    /\ strip(r.form["symbol"]) # <<>>
    /\ strip(r.form["user_public_key"]) # <<>>
    /\ PubkeyFromStringOk(strip(r.form["user_public_key"]))
    /\ r.files["image"] # <<>>

AmountAbsentOrEmpty(r) == "amount" \notin DOMAIN r.form \/ strip(r.form["amount"]) = <<>>

AmountNegative(r) ==
    /\ "amount" \in DOMAIN r.form
    /\ ParseFloat(r.form["amount"]).ok
    /\ LtZero(ParseFloat(r.form["amount"]))

\* C5: of the /create_tx requests that are otherwise valid, one with a negative
\* amount is answered 400, and one with no amount (or an empty one) is not rejected:
\* create_tx is entered with amount zero and the builder is asked for amount zero.
C5_AmountNegativeOrDefault ==
    (InCreate /\ OtherwiseValid(req)) =>
        /\ AmountNegative(req) =>
              /\ pc = "done"
              /\ resp = JsonError(400, "Amount cannot be negative")
              /\ events = <<>>
        /\ AmountAbsentOrEmpty(req) =>
              /\ resp.status # 400
              /\ Len(CallsTo(events, "ipfs")) = 1
              /\ loc.args.amount = Zero
              /\ \A i \in 1..Len(events) :
                    (events[i].e = "call" /\ events[i].to = "trade")
                        => events[i].payload.amount = Zero

\* C5 witness: a request without amount has reached the builder, asked for zero.
C5_Witness ==
    /\ InCreate
    /\ "amount" \notin DOMAIN req.form
    /\ Len(CallsTo(events, "trade")) = 1
    /\ CallsTo(events, "trade")[1].payload.amount = Zero
    /\ resp.status = 200

\* C7: in a 200 of /create_tx, mint_keypair is a keypair, mint_public_key is the
\* public key derived from it, that key is the mint sent to the builder, and the
\* keypair is the one keypair this request generated.
C7_MintKeyMatchesKeypair ==
    (InCreate /\ resp.status = 200) =>
        LET kb == b58decode(resp.body.mint_keypair)
        IN  /\ b58valid(resp.body.mint_keypair)
            /\ Len(kb) = 2
            /\ kb[2] = PubOf(kb[1])
            /\ resp.body.mint_public_key = PubkeyStr(<<PubOf(kb[1])>>)
            /\ Len(CallsTo(events, "trade")) = 1
            /\ CallsTo(events, "trade")[1].payload.mint = resp.body.mint_public_key
            /\ Len(SelectSeq(events, LAMBDA x : x.e = "keygen")) = 1
            /\ SelectSeq(keylog, LAMBDA k : k.req = reqno)
                    = <<[req |-> reqno, keypair |-> [secret |-> kb[1]]]>>

\* C7 witness: the second request of a run is answered 200, with a keypair other
\* than the first request's.
C7_Witness ==
    /\ InCreate
    /\ resp.status = 200
    /\ Len(keylog) = 2
    /\ keylog[1].keypair # keylog[2].keypair
    /\ resp.body.mint_public_key = PubkeyStr(pubkey(keylog[2].keypair))

Rank(x) ==
    IF x.e = "keygen" THEN 1
    ELSE IF x.e = "call" /\ x.to = "ipfs" THEN 2
    ELSE IF x.e = "call" /\ x.to = "trade" THEN 3
    ELSE IF x.e = "deserialize" THEN 4
    ELSE 5

UploadFailed(r) == r.raised \/ r.status \notin 200..299 \/ ~r.isjson
BuildFailed(r) == r.raised \/ r.status \notin 200..299

\* C9: create_tx runs keypair generation, upload, build request, deserialization
\* in this order and each at most once; after a failed upload no build request is
\* sent, after a failed build request nothing is deserialized, and it returns a
\* transaction and a keypair only when every step succeeded.
C9_StepsInOrder ==
    InCreate =>
        /\ \A i, j \in 1..Len(events) : i < j => Rank(events[i]) < Rank(events[j])
        /\ events # <<>> => events[1].e = "keygen"
        /\ \A i \in 2..Len(events) : Rank(events[i]) <= 4 => Rank(events[i - 1]) = Rank(events[i]) - 1
        /\ ("ipfs" \in DOMAIN rx /\ UploadFailed(rx.ipfs)) =>
              /\ CallsTo(events, "trade") = <<>>
              /\ ret.kind \in {"None", "raised"}
        /\ ("trade" \in DOMAIN rx /\ BuildFailed(rx.trade)) =>
              /\ ~Happened(events, "deserialize")
              /\ ret.kind \in {"None", "raised"}
        /\ ("trade" \in DOMAIN rx /\ ~FromBytesOk(rx.trade.content)) => ret.kind \in {"None", "raised"}
        /\ ret.kind = "tuple" =>
              /\ Len(events) = 5
              /\ resp.status = 200
        /\ (pc = "done" /\ ret.kind # "tuple") =>
              /\ resp.status # 200
              /\ DOMAIN resp.body = {"error"}

\* C9 witness: the upload was answered with a failure status and create_tx returned
\* None after one call.
C9_Witness ==
    /\ InCreate
    /\ pc = "done"
    /\ "ipfs" \in DOMAIN rx
    /\ ~rx.ipfs.raised
    /\ rx.ipfs.status = 500
    /\ Len(Calls(events)) = 1
    /\ ret.kind = "None"

RpcAnswered == InBroadcast /\ pc = "done" /\ "rpc" \in DOMAIN rx

\* The answer is HTTP 200 with a JSON object that has no error and has a result.
RpcGood(r) ==
    /\ ~r.raised
    /\ r.status = 200
    /\ r.isjson
    /\ r.json.t = "object"
    /\ "error" \notin r.json.has
    /\ "result" \in r.json.has

BroadcastSuccess(sig) ==
    Json(200, [status |-> "success", signature |-> sig, transaction_url |-> TransactionUrl(sig)])

\* C6 as stated: a 200 answer with a result and no error gives 200 with that
\* result as the signature; every other answer gives no 200 and no signature.
C6_Original ==
    RpcAnswered =>
        /\ RpcGood(rx.rpc) => resp = BroadcastSuccess(rx.rpc.json.result)
        /\ ~RpcGood(rx.rpc) => (resp.status # 200 /\ "signature" \notin DOMAIN resp.body)

\* C6, amended: a 200 answer with no error and a result that is not null gives 200
\* with status success, that result as the signature and the URL of that
\* signature; every other answer, a null result included, gives no 200 and no
\* signature.
C6_ResultIsSignature ==
    RpcAnswered =>
        LET good == RpcGood(rx.rpc) /\ rx.rpc.json.result.t # "null"
        IN  /\ good => resp = BroadcastSuccess(rx.rpc.json.result)
            /\ ~good => (resp.status # 200 /\ "signature" \notin DOMAIN resp.body)

\* C6 witness: the endpoint answered with a signature and the handler sent it on.
C6_Witness ==
    /\ RpcAnswered
    /\ RpcGood(rx.rpc)
    /\ rx.rpc.json.result = JStr(Signature)
    /\ resp.status = 200
    /\ resp.body.signature = JStr(Signature)

ValidSignedTx(d) ==
    /\ d.t = "object"
    /\ "signed_tx" \in d.keys
    /\ d.v.t = "string"
    /\ b64decode_ok(d.v.s)
    /\ FromBytesOk(b64decode(d.v.s))

\* C2 as stated: a JSON body of /broadcast_tx whose signed_tx is not base64 of a
\* transaction (not a string, or the body not an object) is answered 400 and makes
\* no RPC call.
C2_BadSignedTxIs400 ==
    (InBroadcast /\ req.is_json /\ req.parse_ok /\ ~ValidSignedTx(req.data)) =>
        /\ pc = "done"
        /\ resp.status = 400
        /\ CallsTo(events, "rpc") = <<>>

\* The answer is a 200 whose error is of the account-not-found kind.
AccountNotFoundAnswer(r) ==
    /\ ~r.raised
    /\ r.status = 200
    /\ r.isjson
    /\ r.json.t = "object"
    /\ "error" \in r.json.has
    /\ r.json.error \in AccountNotFoundErrors

\* C3 as stated: an account-not-found error of the RPC endpoint gives the caller of
\* /broadcast_tx a response other than the one a generic RPC error gives.
C3_FundingMessageDistinct ==
    (RpcAnswered /\ AccountNotFoundAnswer(rx.rpc)) =>
        resp # BroadcastReply(BroadcastTx(Ok200(RpcJson({"error"}, JNull, GenericError))))

\* C4 as stated: every failure of /create_tx or /broadcast_tx is answered with a
\* JSON body of one error message, 4xx when the request was refused before any
\* outbound call and 5xx when a downstream call failed; no exception leaves a handler.
C4_FailuresAreJsonErrors ==
    (pc = "done" /\ resp.status # 200) =>
        /\ resp.ctype = "json"
        /\ DOMAIN resp.body = {"error"}
        /\ Calls(events) = <<>> => resp.status \in 400..499
        /\ Calls(events) # <<>> => resp.status \in 500..599

\* An amount that is absent (or empty) or a number that is not negative.
AmountAcceptable(r) ==
    \/ AmountAbsentOrEmpty(r)
    \/ /\ ParseFloat(r.form["amount"]).ok
       /\ ParseFloat(r.form["amount"]).kind # "nan"
       /\ ~LtZero(ParseFloat(r.form["amount"]))

\* C10 as stated: a /create_tx request makes an outbound call only if every field
\* passed its check, the amount being absent or a non-negative number.
C10_CallsOnlyAfterValidation ==
    (InCreate /\ Calls(events) # <<>>) =>
        /\ OtherwiseValid(req)
        /\ AmountAcceptable(req)

====
